---- MODULE Spec2Model ----
(***************************************************************************)
(* Model of main.py: a Turing machine with an auxiliary register (the      *)
(* "cache"), run over a tape kept as a doubly linked list of nodes.        *)
(*                                                                         *)
(* A string is a sequence of one-character strings.  A node reference is   *)
(* the index of the node in creation order; 0 is Python's None.            *)
(* The printed instant descriptions are kept as the sequence out.          *)
(***************************************************************************)
EXTENDS Integers, Sequences, FiniteSets, TLC

\* ------------------------------------------------------------------------
\* Constants of main.py
\* ------------------------------------------------------------------------
BLANK_SYMBOL == "_"

RIGHT == "R"

LEFT == "L"

MAX_STEPS == 500

\* ------------------------------------------------------------------------
\* Bounds of the model
\* ------------------------------------------------------------------------
\* Longest simulation string of the exhaustive string sets.
MaxLen == 2

\* Number of calls of Run the driver makes on one configuration file.
MaxRuns == 2

\* Iterations of the loop of Run the model follows in one run; the code's
\* own budget stops a run at MAX_STEPS + 1 iterations, well below this.
StepCap == 520

\* ------------------------------------------------------------------------
\* Tape: class Node and class Tape
\* ------------------------------------------------------------------------
None == 0

Node(value) == [char |-> value, next |-> None, prev |-> None]

\* self.tape = None, before the first Run
NoTape ==
  [nodes |-> <<>>, current |-> None, head |-> None, tail |-> None,
   origin |-> None, blank_symbol |-> BLANK_SYMBOL]

SetInitialNode(t, value) ==
  [t EXCEPT !.nodes = <<Node(value)>>, !.origin = 1, !.current = 1]

SetNext(t, value) ==
  LET new_node == Len(t.nodes) + 1
  IN [t EXCEPT
        !.nodes = Append([t.nodes EXCEPT ![t.current].next = new_node],
                         [Node(value) EXCEPT !.prev = t.current]),
        !.current = new_node,
        !.head = new_node]

\* Variant: new_node.next is not set.
SetPrevNoLinkBack(t, value) ==
  LET new_node == Len(t.nodes) + 1
  IN [t EXCEPT
        !.nodes = Append([t.nodes EXCEPT ![t.current].prev = new_node],
                         Node(value)),
        !.current = new_node,
        !.tail = new_node]

SetPrev(t, value) ==
  LET new_node == Len(t.nodes) + 1
  IN [t EXCEPT
        !.nodes = Append([t.nodes EXCEPT ![t.current].prev = new_node],
                         [Node(value) EXCEPT !.next = t.current]),
        !.current = new_node,
        !.tail = new_node]

\* Variant: the head is left where the last SetNext put it.
ReturnToOriginSkipped(t) == t

ReturnToOrigin(t) == [t EXCEPT !.current = t.origin]

\* Variant: a new node on every move right.
GoRightAlwaysNew(t) == SetNext(t, t.blank_symbol)

GoRight(t) ==
  IF t.nodes[t.current].next = None
  THEN SetNext(t, t.blank_symbol)
  ELSE [t EXCEPT !.current = t.nodes[t.current].next]

GoLeft(t) ==
  IF t.nodes[t.current].prev = None
  THEN SetPrev(t, t.blank_symbol)
  ELSE [t EXCEPT !.current = t.nodes[t.current].prev]

Write(t, value) == [t EXCEPT !.nodes[t.current].char = value]

GetCurrent(t) == t.nodes[t.current].char

\* The characters left of node id, farthest first (the list `left`).
RECURSIVE LeftOf(_, _)
LeftOf(nodes, id) ==
  IF nodes[id].prev = None
  THEN <<>>
  ELSE Append(LeftOf(nodes, nodes[id].prev), nodes[nodes[id].prev].char)

\* The characters right of node id, nearest first (the list `right`).
RECURSIVE RightOf(_, _)
RightOf(nodes, id) ==
  IF nodes[id].next = None
  THEN <<>>
  ELSE <<nodes[nodes[id].next].char>> \o RightOf(nodes, nodes[id].next)

GetLeftSide(t) == LeftOf(t.nodes, t.current)

GetRightSide(t) == RightOf(t.nodes, t.current)

\* for char in string[1:]: self.SetNext(char)
RECURSIVE SetNextAll(_, _)
SetNextAll(t, chars) ==
  IF chars = <<>> THEN t ELSE SetNextAll(SetNext(t, Head(chars)), Tail(chars))

\* Tape.__init__ evaluates string[0] first: IndexError on the empty string.
TapeInitRaises(string) == Len(string) = 0

\* Tape.__init__ on a string that has a first character.
NewTape(string, blank_symbol) ==
  ReturnToOrigin(
    SetNextAll(SetInitialNode([NoTape EXCEPT !.blank_symbol = blank_symbol],
                              Head(string)),
               Tail(string)))

\* ------------------------------------------------------------------------
\* Configuration files (the YAML documents read by LoadConfig)
\* ------------------------------------------------------------------------
\* All strings over the symbols S of length 0..n.
StringsUpTo(S, n) == UNION {[1..k -> S] : k \in 0..n}

\* One entry of config['delta'].  A YAML null is the string "None"; an
\* entry built by RuleNoCache has no mem_cache_value keys.
Rule(q, c, a, q2, c2, b, d) ==
  [params |-> [initial_state |-> q, mem_cache_value |-> c, tape_input |-> a],
   output |-> [final_state |-> q2, mem_cache_value |-> c2,
               tape_output |-> b, tape_displacement |-> d]]

RuleNoCache(q, a, q2, b, d) ==
  [params |-> [initial_state |-> q, tape_input |-> a],
   output |-> [final_state |-> q2, tape_output |-> b, tape_displacement |-> d]]

\* Unary increment: skip the ones, append a one on the first blank.
UnaryConfig ==
  [alphabet |-> {"1"},
   tape_alphabet |-> {"0", "1", "_"},
   q_states |-> [q_list |-> {"q0", "qf"}, initial |-> "q0", final |-> "qf"],
   delta |-> << RuleNoCache("q0", "1", "q0", "1", "R"),
                Rule("q0", "None", "None", "qf", "None", "1", "R") >>,
   simulation_strings |-> StringsUpTo({"1", "a"}, MaxLen)]

\* Two rules on (q0, "1") that differ in the register only, a rule on
\* (q0, "0") for the blank register only; the accepting state has an
\* outgoing rule.
RegisterConfig ==
  [alphabet |-> {"0", "1"},
   tape_alphabet |-> {"0", "1", "X", "_"},
   q_states |-> [q_list |-> {"q0", "qf"}, initial |-> "q0", final |-> "qf"],
   delta |-> << Rule("q0", "None", "1", "q0", "X", "1", "R"),
                Rule("q0", "X", "1", "qf", "X", "0", "S"),
                Rule("qf", "X", "0", "q0", "None", "1", "L"),
                Rule("q0", "None", "0", "q0", "None", "0", "R") >>,
   simulation_strings |-> StringsUpTo({"0", "1"}, MaxLen)]

\* Never halts on a tape that starts with "0": bounces between the origin
\* and the cell left of it.
LoopConfig ==
  [alphabet |-> {"0", "1"},
   tape_alphabet |-> {"0", "1", "_"},
   q_states |-> [q_list |-> {"q0", "q1", "qf"}, initial |-> "q0", final |-> "qf"],
   delta |-> << RuleNoCache("q0", "0", "q1", "0", "L"),
                RuleNoCache("q1", "None", "q0", "None", "R") >>,
   simulation_strings |-> {<<"0">>, <<"1">>}]

\* The initial state is the accepting state.
InitialAcceptingConfig ==
  [alphabet |-> {"1"},
   tape_alphabet |-> {"1", "_"},
   q_states |-> [q_list |-> {"q0"}, initial |-> "q0", final |-> "q0"],
   delta |-> << RuleNoCache("q0", "1", "q0", "_", "R") >>,
   simulation_strings |-> StringsUpTo({"1"}, MaxLen)]

\* initial and final are not in q_list.
UndeclaredStatesConfig ==
  [alphabet |-> {"1"},
   tape_alphabet |-> {"1", "_"},
   q_states |-> [q_list |-> {"q0"}, initial |-> "qs", final |-> "qz"],
   delta |-> << RuleNoCache("qs", "1", "qz", "1", "R") >>,
   simulation_strings |-> {<<"1">>}]

\* A rule keyed by an undeclared state and an undeclared symbol; the blank
\* symbol is not in tape_alphabet.
UndeclaredSymbolsConfig ==
  [alphabet |-> {"1"},
   tape_alphabet |-> {"1"},
   q_states |-> [q_list |-> {"q0", "qf"}, initial |-> "q0", final |-> "qf"],
   delta |-> << RuleNoCache("q0", "1", "q0", "1", "R"),
                RuleNoCache("qx", "z", "qf", "1", "R") >>,
   simulation_strings |-> {<<"1">>}]

\* The name of the i-th state of CountConfig.
StateName(i) == "q" \o ToString(i)

\* A chain of MAX_STEPS rules that stay on the first cell: on "1" the
\* accepting state is entered by transition number MAX_STEPS.
CountConfig ==
  [alphabet |-> {"0", "1"},
   tape_alphabet |-> {"0", "1", "_"},
   q_states |-> [q_list |-> {StateName(i) : i \in 0..MAX_STEPS},
                 initial |-> StateName(0), final |-> StateName(MAX_STEPS)],
   delta |-> [i \in 1..MAX_STEPS |->
                RuleNoCache(StateName(i - 1), "1", StateName(i), "1", "S")],
   simulation_strings |-> {<<"0">>, <<"1">>}]

Configs ==
  << UnaryConfig, RegisterConfig, LoopConfig, InitialAcceptingConfig,
     UndeclaredStatesConfig, UndeclaredSymbolsConfig, CountConfig >>

\* ------------------------------------------------------------------------
\* ParseConfig and GetTuringMachineAttr
\* ------------------------------------------------------------------------
ReplaceEmptyWithUnderscore(value) ==
  IF value = "None" THEN BLANK_SYMBOL ELSE value

\* dict.get(key, default)
Get(d, key, default) == IF key \in DOMAIN d THEN d[key] ELSE default

\* state_cache_key of one entry of config['delta']
StateCacheKey(t) ==
  << << ReplaceEmptyWithUnderscore(t.params.initial_state),
        ReplaceEmptyWithUnderscore(Get(t.params, "mem_cache_value", BLANK_SYMBOL)) >>,
     ReplaceEmptyWithUnderscore(t.params.tape_input) >>

\* tape_values of one entry of config['delta']
TapeValues(t) ==
  << << ReplaceEmptyWithUnderscore(t.output.final_state),
        ReplaceEmptyWithUnderscore(Get(t.output, "mem_cache_value", BLANK_SYMBOL)) >>,
     ReplaceEmptyWithUnderscore(t.output.tape_output),
     ReplaceEmptyWithUnderscore(t.output.tape_displacement) >>

\* parsed_config: a later entry with the same key replaces an earlier one.
ParseConfig(config) ==
  LET delta == config.delta
      Last(key) ==
        CHOOSE i \in 1..Len(delta) :
          /\ StateCacheKey(delta[i]) = key
          /\ \A j \in (i + 1)..Len(delta) : StateCacheKey(delta[j]) # key
  IN [key \in {StateCacheKey(delta[i]) : i \in 1..Len(delta)} |->
        TapeValues(delta[Last(key)])]

\* The arguments Main passes to TuringMachine(...); blank_symbol is left to
\* its default.
GetTuringMachineAttr(config) ==
  [alphabet |-> config.tape_alphabet,
   input_symbols |-> config.alphabet,
   states |-> config.q_states.q_list,
   initial_state |-> config.q_states.initial,
   accepting_states |-> {config.q_states.final},
   transition_function |-> ParseConfig(config),
   blank_symbol |-> BLANK_SYMBOL]

\* ------------------------------------------------------------------------
\* class TuringMachine
\* ------------------------------------------------------------------------
VARIABLES
  cfg,               \* the configuration file Main reads (index in Configs)
  pc,                \* where the driver is: "NotConstructed", "Idle",
                     \* "Running" (at the while of Run), "Accepted",
                     \* "Rejected" (Run returned after printing that), or
                     \* "Raised" (Run left by an exception)
  defn,              \* the machine definition stored by __init__
  tape,              \* self.tape
  cache,             \* self.cache
  current_state,     \* self.current_state
  rejection_reason,  \* self.rejection_reason
  steps_count,       \* self.steps_count
  input_string,      \* the argument of the last call of Run
  out,               \* the instant descriptions printed by that call
  applied,           \* the number of transitions applied by that call
  moves,             \* the head directions of those transitions, in order
  runs,              \* the number of calls of Run so far
  prev,              \* what the call of Run before the last one gave
  attr,              \* interleaved runs: what GetTuringMachineAttr returned,
                     \* passed to every TuringMachine(...)
  object,            \* interleaved runs: the attributes of each engine
  thread             \* interleaved runs: where each run is, with its input
                     \* and the tape it ended with

vars ==
  << cfg, pc, defn, tape, cache, current_state, rejection_reason, steps_count,
     input_string, out, applied, moves, runs, prev, attr, object, thread >>

\* The variables of the interleaved runs.
conc_vars == << attr, object, thread >>

\* The variables of the single driver.
main_vars ==
  << pc, defn, tape, cache, current_state, rejection_reason, steps_count,
     input_string, out, applied, moves, runs, prev >>

\* A string-valued None.
NoneValue == "None"

\* rejection_reason is None
NoReason == <<>>

NoDefn ==
  [alphabet |-> {}, input_symbols |-> {}, states |-> {}, initial_state |-> NoneValue,
   accepting_states |-> {}, transition_function |-> <<>>,
   blank_symbol |-> BLANK_SYMBOL]

NoPrev ==
  [valid |-> FALSE, same_engine |-> FALSE, input_string |-> <<>>,
   pc |-> "Idle", rejection_reason |-> NoReason, out |-> <<>>, tape |-> NoTape,
   current_state |-> NoneValue, cache |-> NoneValue]

\* What a finished call of Run leaves for its caller.
Finished(same) ==
  [valid |-> TRUE, same_engine |-> same, input_string |-> input_string,
   pc |-> pc,
   rejection_reason |-> IF pc = "Rejected" THEN rejection_reason ELSE NoReason,
   out |-> out, tape |-> tape, current_state |-> current_state, cache |-> cache]

Terminal == {"Accepted", "Rejected"}

Init ==
  /\ cfg \in 1..Len(Configs)
  /\ pc = "NotConstructed"
  /\ defn = NoDefn
  /\ tape = NoTape
  /\ cache = NoneValue
  /\ current_state = NoneValue
  /\ rejection_reason = NoReason
  /\ steps_count = 0
  /\ input_string = <<>>
  /\ out = <<>>
  /\ applied = 0
  /\ moves = <<>>
  /\ runs = 0
  /\ prev = NoPrev
  /\ attr = NoDefn
  /\ object = <<>>
  /\ thread = <<>>

\* tm = TuringMachine(...) in Main: the first engine, or a new engine for
\* the next simulation string.
Construct ==
  /\ \/ pc = "NotConstructed"
     \/ pc \in Terminal /\ runs < MaxRuns
  /\ defn' = GetTuringMachineAttr(Configs[cfg])
  /\ tape' = NoTape
  /\ cache' = defn'.blank_symbol
  /\ current_state' = defn'.initial_state
  /\ rejection_reason' = NoReason
  /\ steps_count' = 0
  /\ pc' = "Idle"
  /\ prev' = IF pc \in Terminal THEN Finished(FALSE) ELSE prev
  /\ UNCHANGED << cfg, input_string, out, applied, moves, runs >>
  /\ UNCHANGED conc_vars

\* Run up to the while: on a new engine, or again on the engine that
\* finished a run.
Run(string) ==
  /\ pc \in {"Idle"} \cup Terminal
  /\ runs < MaxRuns
  /\ runs' = runs + 1
  /\ input_string' = string
  /\ prev' = IF pc \in Terminal THEN Finished(TRUE) ELSE prev
  /\ out' = <<>>
  /\ applied' = 0
  /\ moves' = <<>>
  /\ IF TapeInitRaises(string)
     THEN /\ pc' = "Raised"
          /\ UNCHANGED << tape, steps_count >>
     ELSE /\ pc' = "Running"
          /\ tape' = NewTape(string, defn.blank_symbol)
          /\ steps_count' = 0
  /\ UNCHANGED << cfg, defn, cache, current_state, rejection_reason >>
  /\ UNCHANGED conc_vars

\* The condition of the while of Run, and of the if after it.
IsAccepting(state, accepting_states) == state \in accepting_states

\* Variant: `while True`, the accepting state is only looked at after the
\* loop.
WhileConditionAlways == TRUE

\* Variant: the loop is entered when the step limit is used up, whatever
\* the state, so that the limit is looked at first.
WhileConditionBudgetFirst ==
  ~IsAccepting(current_state, defn.accepting_states) \/ steps_count >= MAX_STEPS

\* while self.current_state not in self.accepting_states
WhileCondition == ~IsAccepting(current_state, defn.accepting_states)

\* Variant: no step limit.
BudgetNeverExceeded(count) == FALSE

\* Variant: `>=` for `>`.
BudgetExceededEarly(count) == count >= MAX_STEPS

\* if self.steps_count > MAX_STEPS
BudgetExceeded(count) == count > MAX_STEPS

NoTransition == << NoneValue, NoneValue, NoneValue, NoneValue >>

\* Variant: a missing rule is read as "change nothing and stay".
GetTransitionDefaultStay(transition_function, state, tape_value, cache_value) ==
  LET transition_key == << << state, cache_value >>, tape_value >>
  IN IF transition_key \in DOMAIN transition_function
     THEN LET transition == transition_function[transition_key]
          IN << transition[1][1], transition[1][2], transition[2], transition[3] >>
     ELSE << state, cache_value, tape_value, "S" >>

\* Variant: the register is left out of the key looked up.
GetTransitionNoCache(transition_function, state, tape_value, cache_value) ==
  LET transition_key == << << state, BLANK_SYMBOL >>, tape_value >>
  IN IF transition_key \in DOMAIN transition_function
     THEN LET transition == transition_function[transition_key]
          IN << transition[1][1], transition[1][2], transition[2], transition[3] >>
     ELSE NoTransition

GetTransition(transition_function, state, tape_value, cache_value) ==
  LET transition_key == << << state, cache_value >>, tape_value >>
  IN IF transition_key \in DOMAIN transition_function
     THEN LET transition == transition_function[transition_key]
          IN << transition[1][1], transition[1][2], transition[2], transition[3] >>
     ELSE NoTransition

\* What PrintInstantDescription prints.
InstantDescription ==
  [left_side |-> GetLeftSide(tape), state |-> current_state, cache |-> cache,
   current_char |-> GetCurrent(tape), right_side |-> GetRightSide(tape)]

\* The while ends because its condition is false; the if after it prints
\* the outcome.
LoopExit ==
  /\ pc = "Running"
  /\ ~WhileCondition
  /\ pc' = IF IsAccepting(current_state, defn.accepting_states)
           THEN "Accepted" ELSE "Rejected"
  /\ UNCHANGED << cfg, defn, tape, cache, current_state, rejection_reason,
                  steps_count, input_string, out, applied, moves, runs, prev >>
  /\ UNCHANGED conc_vars

\* One iteration that breaks on the step limit; PrintIsRejected.
StepLimit ==
  /\ pc = "Running"
  /\ steps_count < StepCap
  /\ WhileCondition
  /\ out' = Append(out, InstantDescription)
  /\ steps_count' = steps_count + 1
  /\ BudgetExceeded(steps_count')
  /\ rejection_reason' = << "MaxSteps" >>
  /\ pc' = IF IsAccepting(current_state, defn.accepting_states)
           THEN "Accepted" ELSE "Rejected"
  /\ UNCHANGED << cfg, defn, tape, cache, current_state, input_string,
                  applied, moves, runs, prev >>
  /\ UNCHANGED conc_vars

\* Variant: the result of GetTransition is assigned and written before it
\* is tested for None.
StepNoTransitionAssignFirst ==
  /\ pc = "Running"
  /\ steps_count < StepCap
  /\ WhileCondition
  /\ out' = Append(out, InstantDescription)
  /\ steps_count' = steps_count + 1
  /\ ~BudgetExceeded(steps_count')
  /\ LET curr_char == GetCurrent(tape)
         t == GetTransition(defn.transition_function, current_state,
                            curr_char, cache)
     IN /\ t[1] = NoneValue
        /\ current_state' = t[1]
        /\ cache' = t[2]
        /\ tape' = Write(tape, t[3])
        /\ rejection_reason' = << "NoTransition", current_state, curr_char >>
  /\ pc' = IF IsAccepting(current_state', defn.accepting_states)
           THEN "Accepted" ELSE "Rejected"
  /\ UNCHANGED << cfg, defn, input_string, applied, moves, runs, prev >>
  /\ UNCHANGED conc_vars

\* One iteration that breaks because GetTransition found no rule;
\* PrintIsRejected.
StepNoTransition ==
  /\ pc = "Running"
  /\ steps_count < StepCap
  /\ WhileCondition
  /\ out' = Append(out, InstantDescription)
  /\ steps_count' = steps_count + 1
  /\ ~BudgetExceeded(steps_count')
  /\ LET curr_char == GetCurrent(tape)
         t == GetTransition(defn.transition_function, current_state,
                            curr_char, cache)
     IN /\ t[1] = NoneValue
        /\ rejection_reason' = << "NoTransition", current_state, curr_char >>
  /\ pc' = IF IsAccepting(current_state, defn.accepting_states)
           THEN "Accepted" ELSE "Rejected"
  /\ UNCHANGED << cfg, defn, tape, cache, current_state, input_string,
                  applied, moves, runs, prev >>
  /\ UNCHANGED conc_vars

\* Variant: the head moves before the symbol is written.
StepApplyMoveFirst ==
  /\ pc = "Running"
  /\ steps_count < StepCap
  /\ WhileCondition
  /\ out' = Append(out, InstantDescription)
  /\ steps_count' = steps_count + 1
  /\ ~BudgetExceeded(steps_count')
  /\ LET curr_char == GetCurrent(tape)
         t == GetTransition(defn.transition_function, current_state,
                            curr_char, cache)
         moved == IF t[4] = RIGHT THEN GoRight(tape)
                  ELSE IF t[4] = LEFT THEN GoLeft(tape)
                  ELSE tape
     IN /\ t[1] # NoneValue
        /\ current_state' = t[1]
        /\ cache' = t[2]
        /\ tape' = Write(moved, t[3])
        /\ moves' = Append(moves, t[4])
  /\ applied' = applied + 1
  /\ UNCHANGED << cfg, pc, defn, rejection_reason, input_string, runs, prev >>
  /\ UNCHANGED conc_vars

\* One iteration that applies the transition found.
StepApply ==
  /\ pc = "Running"
  /\ steps_count < StepCap
  /\ WhileCondition
  /\ out' = Append(out, InstantDescription)
  /\ steps_count' = steps_count + 1
  /\ ~BudgetExceeded(steps_count')
  /\ LET curr_char == GetCurrent(tape)
         t == GetTransition(defn.transition_function, current_state,
                            curr_char, cache)
         written == Write(tape, t[3])
     IN /\ t[1] # NoneValue
        /\ current_state' = t[1]
        /\ cache' = t[2]
        /\ tape' = IF t[4] = RIGHT THEN GoRight(written)
                   ELSE IF t[4] = LEFT THEN GoLeft(written)
                   ELSE written
        /\ moves' = Append(moves, t[4])
  /\ applied' = applied + 1
  /\ UNCHANGED << cfg, pc, defn, rejection_reason, input_string, runs, prev >>
  /\ UNCHANGED conc_vars

Next ==
  \/ Construct
  \/ \E string \in Configs[cfg].simulation_strings : Run(string)
  \/ LoopExit
  \/ StepLimit
  \/ StepNoTransition
  \/ StepApply

Spec == Init /\ [][Next]_vars

\* The loop of Run is a sequential program: an enabled iteration is taken.
FairSpec ==
  Spec /\ WF_vars(LoopExit) /\ WF_vars(StepLimit) /\ WF_vars(StepNoTransition)
       /\ WF_vars(StepApply)

\* ------------------------------------------------------------------------
\* Interleaved runs: Main's loop body (a new TuringMachine per string, all
\* built from the same objects returned by GetTuringMachineAttr), with the
\* iterations of two runs taken in any order.
\* ------------------------------------------------------------------------
Threads == {1, 2}

\* The configurations run interleaved: those whose runs are short.
ConcConfigs ==
  { i \in 1..Len(Configs) :
      Configs[i] \in {UnaryConfig, RegisterConfig, InitialAcceptingConfig} }

\* The attributes __init__ gives a new engine for the definition d.
NewObject(d) ==
  [tape |-> NoTape, cache |-> d.blank_symbol, current_state |-> d.initial_state,
   rejection_reason |-> NoReason, steps_count |-> 0]

\* Run up to the while, on the attributes o, when Tape.__init__ does not
\* raise.
RunStart(d, o, string) ==
  [o EXCEPT !.tape = NewTape(string, d.blank_symbol), !.steps_count = 0]

\* One pass from the while of Run on the attributes o: where Run is after
\* it, and the attributes then.
Iteration(d, o) ==
  LET outcome == IF IsAccepting(o.current_state, d.accepting_states)
                 THEN "Accepted" ELSE "Rejected"
      count == o.steps_count + 1
      curr_char == GetCurrent(o.tape)
      t == GetTransition(d.transition_function, o.current_state, curr_char,
                         o.cache)
      written == Write(o.tape, t[3])
  IN IF IsAccepting(o.current_state, d.accepting_states)
     THEN [pc |-> outcome, object |-> o]
     ELSE IF BudgetExceeded(count)
     THEN [pc |-> outcome,
           object |-> [o EXCEPT !.steps_count = count,
                                !.rejection_reason = << "MaxSteps" >>]]
     ELSE IF t[1] = NoneValue
     THEN [pc |-> outcome,
           object |-> [o EXCEPT !.steps_count = count,
                                !.rejection_reason =
                                  << "NoTransition", o.current_state, curr_char >>]]
     ELSE [pc |-> "Running",
           object |-> [o EXCEPT !.steps_count = count,
                                !.current_state = t[1],
                                !.cache = t[2],
                                !.tape = IF t[4] = RIGHT THEN GoRight(written)
                                         ELSE IF t[4] = LEFT THEN GoLeft(written)
                                         ELSE written]]

\* Variant: the engine is built once, before the loop over the strings.
SelfHoisted(i) == 1

\* The engine run i works on: the tm built for its string.
Self(i) == i

ConcInit ==
  /\ cfg \in ConcConfigs
  /\ pc = "NotConstructed"
  /\ defn = NoDefn
  /\ tape = NoTape
  /\ cache = NoneValue
  /\ current_state = NoneValue
  /\ rejection_reason = NoReason
  /\ steps_count = 0
  /\ input_string = <<>>
  /\ out = <<>>
  /\ applied = 0
  /\ moves = <<>>
  /\ runs = 0
  /\ prev = NoPrev
  /\ attr = GetTuringMachineAttr(Configs[cfg])
  /\ object = [i \in Threads |-> NewObject(attr)]
  /\ thread = [i \in Threads |->
                 [pc |-> "Idle", input_string |-> <<>>, tape |-> NoTape]]

\* Run i gets to its while, or is left by the exception of Tape.__init__.
ConcRun(i, string) ==
  /\ thread[i].pc = "Idle"
  /\ IF TapeInitRaises(string)
     THEN /\ thread' = [thread EXCEPT ![i].pc = "Raised",
                                      ![i].input_string = string]
          /\ UNCHANGED object
     ELSE /\ thread' = [thread EXCEPT ![i].pc = "Running",
                                      ![i].input_string = string]
          /\ object' = [object EXCEPT
                          ![Self(i)] = RunStart(attr, object[Self(i)], string)]
  /\ UNCHANGED << cfg, attr >>
  /\ UNCHANGED main_vars

\* Run i makes one pass from its while; when that ends the run, the tape
\* it ended with is kept.
ConcStep(i) ==
  /\ thread[i].pc = "Running"
  /\ LET r == Iteration(attr, object[Self(i)])
     IN /\ object' = [object EXCEPT ![Self(i)] = r.object]
        /\ thread' = [thread EXCEPT
                        ![i].pc = r.pc,
                        ![i].tape = IF r.pc \in Terminal THEN r.object.tape
                                    ELSE NoTape]
  /\ UNCHANGED << cfg, attr >>
  /\ UNCHANGED main_vars

ConcNext ==
  \/ \E i \in Threads : \E string \in Configs[cfg].simulation_strings :
       ConcRun(i, string)
  \/ \E i \in Threads : ConcStep(i)

ConcSpec == ConcInit /\ [][ConcNext]_vars

\* ------------------------------------------------------------------------
\* Properties
\* ------------------------------------------------------------------------
\* The key (state, register, symbol) the next iteration looks up.
CurrentKey == << << current_state, cache >>, GetCurrent(tape) >>

\* The symbols of the tape from the origin rightwards.
FromOrigin(t) == << t.nodes[t.origin].char >> \o RightOf(t.nodes, t.origin)

\* C1: a run ends Accepted exactly if the current state is accepting when
\* the loop stops; no transition is applied while the current state is
\* accepting; an iteration that starts in an accepting state ends the run
\* Accepted without counting a step, printing a description or looking up
\* a rule.
C1_AcceptedIffAccepting ==
  /\ [](pc \in Terminal =>
          (pc = "Accepted" <=> current_state \in defn.accepting_states))
  /\ [][applied' = applied + 1 => current_state \notin defn.accepting_states]_vars
  /\ [][(pc = "Running" /\ current_state \in defn.accepting_states) =>
          /\ pc' = "Accepted"
          /\ UNCHANGED << steps_count, rejection_reason, out, tape, cache,
                          current_state, applied >>]_vars

\* A run that applied transitions and then ended Accepted.
C1_Witness ==
  /\ pc = "Accepted"
  /\ applied > 0
  /\ current_state \in defn.accepting_states

\* C2: every run on a non-empty input leaves Running and ends Accepted or
\* Rejected, also when the transition table loops forever.
C2_RunTerminates == (pc = "Running") ~> (pc \in Terminal)

\* A run of the machine that never halts, ended by the step limit.
C2_Witness ==
  /\ Configs[cfg] = LoopConfig
  /\ pc = "Rejected"
  /\ rejection_reason = << "MaxSteps" >>

\* C3: a run rejected for the step limit has applied exactly MAX_STEPS
\* transitions, and no run applies more.
C3_ExactlyMaxSteps ==
  /\ applied <= MAX_STEPS
  /\ (pc = "Rejected" /\ rejection_reason = << "MaxSteps" >>) =>
       applied = MAX_STEPS

\* A run rejected for the step limit after MAX_STEPS transitions.
C3_Witness ==
  /\ pc = "Rejected"
  /\ rejection_reason = << "MaxSteps" >>
  /\ applied = MAX_STEPS
  /\ steps_count = MAX_STEPS + 1

\* C4: an iteration within the step limit that finds no rule for (state,
\* register, symbol) ends the run Rejected at that configuration, in a
\* non-accepting state; no run on a non-empty input is left by an exception.
C4_NoRuleRejects ==
  /\ [][(/\ pc = "Running"
         /\ current_state \notin defn.accepting_states
         /\ steps_count < MAX_STEPS
         /\ CurrentKey \notin DOMAIN defn.transition_function) =>
          /\ pc' = "Rejected"
          /\ rejection_reason' =
               << "NoTransition", current_state, GetCurrent(tape) >>
          /\ UNCHANGED << current_state, cache, tape, applied >>]_vars
  /\ [](pc = "Raised" => input_string = <<>>)

\* A run rejected on a symbol that is outside the tape alphabet.
C4_Witness ==
  /\ pc = "Rejected"
  /\ rejection_reason = << "NoTransition", current_state, "a" >>
  /\ GetCurrent(tape) = "a"
  /\ "a" \notin defn.alphabet

\* C5: at the first iteration of every call of Run the current state is the
\* initial state, the register is the blank symbol, the step count is 0 and
\* the tape holds the new input with the head at the origin.
C5_FreshRunState ==
  (pc = "Running" /\ out = <<>> /\ applied = 0) =>
    /\ current_state = defn.initial_state
    /\ cache = defn.blank_symbol
    /\ steps_count = 0
    /\ tape = NewTape(input_string, defn.blank_symbol)

\* C6: a run with the same machine and the same input as the run before it
\* gives the same outcome, with the same reason, and the same descriptions.
C6_Deterministic ==
  (pc \in Terminal /\ prev.valid /\ prev.input_string = input_string) =>
    /\ prev.pc = pc
    /\ prev.rejection_reason =
         (IF pc = "Rejected" THEN rejection_reason ELSE NoReason)
    /\ prev.out = out

\* C7: Run on the empty string starts from a tape of one blank cell, the
\* head on it, and goes on to Accepted or Rejected.
C7_EmptyInputPermitted ==
  (runs > 0 /\ input_string = <<>>) =>
    /\ pc \in {"Running"} \cup Terminal
    /\ (pc = "Running" /\ out = <<>>) =>
         /\ FromOrigin(tape) = << defn.blank_symbol >>
         /\ tape.current = tape.origin

\* C8: on a machine whose initial state is accepting, every Run of an
\* engine on any input, the empty one included, ends Accepted with no
\* transition applied, the tape equal to the input and nothing printed.
C8_InitialAccepting ==
  (/\ pc \notin {"NotConstructed", "Idle"}
   /\ defn.initial_state \in defn.accepting_states) =>
    /\ pc \in {"Running", "Accepted"}
    /\ applied = 0
    /\ out = <<>>
    /\ FromOrigin(tape) =
         (IF input_string = <<>> THEN << defn.blank_symbol >> ELSE input_string)
    /\ tape.current = tape.origin

\* The entries of config['delta'] whose state, register and symbol, as
\* written in the file, are those of the key.
RulesFor(key) ==
  LET delta == Configs[cfg].delta
      Norm(v) == IF v = "None" THEN "_" ELSE v
      Register(t) ==
        IF "mem_cache_value" \in DOMAIN t.params
        THEN Norm(t.params.mem_cache_value) ELSE "_"
  IN { i \in 1..Len(delta) :
         /\ Norm(delta[i].params.initial_state) = key[1][1]
         /\ Register(delta[i]) = key[1][2]
         /\ Norm(delta[i].params.tape_input) = key[2] }

\* C9: every transition applied is the one written for the current state,
\* the current register and the symbol read: the new state, the new
\* register, the symbol written and the move are those of that entry.
C9_KeyedByRegister ==
  [][applied' = applied + 1 =>
       \E i \in RulesFor(CurrentKey) :
         LET output == Configs[cfg].delta[i].output
             Norm(v) == IF v = "None" THEN "_" ELSE v
             register ==
               IF "mem_cache_value" \in DOMAIN output
               THEN Norm(output.mem_cache_value) ELSE "_"
         IN /\ current_state' = Norm(output.final_state)
            /\ cache' = register
            /\ tape'.nodes[tape.current].char = Norm(output.tape_output)
            /\ (output.tape_displacement = "S") => tape'.current = tape.current
            /\ (output.tape_displacement = "R") =>
                 tape'.nodes[tape.current].next = tape'.current
            /\ (output.tape_displacement = "L") =>
                 tape'.nodes[tape.current].prev = tape'.current]_vars

\* Both rules on (q0, "1") were applied in one run: the one for the blank
\* register, then the one for the register X.
C9_Witness ==
  /\ Configs[cfg] = RegisterConfig
  /\ input_string = << "1", "1" >>
  /\ applied = 2
  /\ current_state = "qf"
  /\ cache = "X"
  /\ FromOrigin(tape) = << "1", "0" >>

\* What a machine definition has to satisfy.
WellFormed(d) ==
  /\ d.initial_state \in d.states
  /\ d.accepting_states \subseteq d.states
  /\ d.blank_symbol \in d.alphabet
  /\ \A key \in DOMAIN d.transition_function :
       key[1][1] \in d.states /\ key[2] \in d.alphabet

\* C10: an engine exists only for a well-formed machine definition.
C10_ConstructionValidates == pc # "NotConstructed" => WellFormed(defn)

\* The node k links away from node id: next links for k > 0, prev links
\* for k < 0; None when the links end before that.
RECURSIVE Walk(_, _, _)
Walk(nodes, id, k) ==
  IF id = None \/ k = 0 THEN id
  ELSE IF k > 0 THEN Walk(nodes, nodes[id].next, k - 1)
  ELSE Walk(nodes, nodes[id].prev, k + 1)

\* The offsets from the origin a tape of this many nodes can have.
Span(t) == (0 - Len(t.nodes))..Len(t.nodes)

\* The offsets from the origin at which node id is found.
PositionsOf(t, id) == {k \in Span(t) : Walk(t.nodes, t.origin, k) = id}

\* The offsets from the origin at which the head is found.
HeadPositions(t) == PositionsOf(t, t.current)

\* The tape of a run, as opposed to the None of a new engine.
HasTape == pc \in {"Running"} \cup Terminal

\* The entry of the transition table for the key the iteration looks up.
CurrentRule == defn.transition_function[CurrentKey]

\* C11: the cells of the tape are one chain: next and prev are inverse to
\* each other, every cell is found from the origin at exactly one offset,
\* and the head is on one of the cells, so that GetCurrent has a cell to
\* read.
C11_NoGaps ==
  HasTape =>
    LET nodes == tape.nodes
        ids == 1..Len(nodes)
    IN /\ tape.current \in ids
       /\ tape.origin \in ids
       /\ \A id \in ids :
            /\ nodes[id].next # None =>
                 nodes[id].next \in ids /\ nodes[nodes[id].next].prev = id
            /\ nodes[id].prev # None =>
                 nodes[id].prev \in ids /\ nodes[nodes[id].prev].next = id
            /\ Cardinality(PositionsOf(tape, id)) = 1
       /\ GetCurrent(tape) = nodes[Walk(nodes, tape.origin,
                                        CHOOSE k \in Span(tape) :
                                          k \in HeadPositions(tape))].char

\* A tape that grew to the left and whose head came back to the origin.
C11_Witness ==
  /\ pc = "Running"
  /\ tape.tail # None
  /\ tape.current = tape.origin
  /\ applied >= 2

\* C12: a move right (left) puts the head one offset to the right (left);
\* one cell holding the blank symbol is created if the links end there and
\* none otherwise; every cell stays at its offset, and every cell but the
\* one written in the same iteration keeps its symbol.
C12_MoveFrame ==
  [][applied' = applied + 1 =>
       LET d == CurrentRule[3]
           step == IF d = RIGHT THEN 1 ELSE IF d = LEFT THEN 0 - 1 ELSE 0
           target == Walk(tape.nodes, tape.current, step)
           n == Len(tape.nodes)
       IN /\ HeadPositions(tape') = {k + step : k \in HeadPositions(tape)}
          /\ Len(tape'.nodes) = IF target = None THEN n + 1 ELSE n
          /\ target = None =>
               /\ tape'.current = n + 1
               /\ tape'.nodes[n + 1].char = tape.blank_symbol
          /\ target # None => tape'.current = target
          /\ \A id \in 1..n :
               /\ PositionsOf(tape', id) = PositionsOf(tape, id)
               /\ id # tape.current =>
                    tape'.nodes[id].char = tape.nodes[id].char]_vars

\* A move right onto a cell that existed, after which the tape still has
\* the two cells of the input.
C12_Witness ==
  /\ Configs[cfg] = RegisterConfig
  /\ input_string = << "1", "1" >>
  /\ moves = << RIGHT >>
  /\ Len(tape.nodes) = Len(input_string)
  /\ HeadPositions(tape) = {1}

\* C13: an applied rule writes its output symbol to the cell that was
\* read, sets the state and the register to its outputs, moves the head by
\* +1 for R, -1 for L and 0 for anything else, and changes the symbol of no
\* other cell.
C13_ApplyRule ==
  [][applied' = applied + 1 =>
       LET rule == CurrentRule
           step == IF rule[3] = "R" THEN 1 ELSE IF rule[3] = "L" THEN 0 - 1 ELSE 0
       IN /\ tape'.nodes[tape.current].char = rule[2]
          /\ current_state' = rule[1][1]
          /\ cache' = rule[1][2]
          /\ Cardinality(HeadPositions(tape)) = 1
          /\ HeadPositions(tape') = {k + step : k \in HeadPositions(tape)}
          /\ \A id \in 1..Len(tape.nodes) :
               id # tape.current => tape'.nodes[id].char = tape.nodes[id].char]_vars

\* The rule with displacement S was applied: the symbol under the head
\* changed and the head stayed one cell right of the origin.
C13_Witness ==
  /\ Configs[cfg] = RegisterConfig
  /\ moves = << "R", "S" >>
  /\ FromOrigin(tape) = << "1", "0" >>
  /\ HeadPositions(tape) = {1}

\* The number of moves of the run in direction d.
Count(d) == Cardinality({i \in 1..Len(moves) : moves[i] = d})

NeverMoved(d) == Count(d) = 0

\* C14 as claimed: no move left, empty left side; no move right, empty
\* right side.
C14_NeverMovedEmptyContext ==
  HasTape =>
    /\ NeverMoved(LEFT) => GetLeftSide(tape) = <<>>
    /\ NeverMoved(RIGHT) => GetRightSide(tape) = <<>>

\* C14: with no move left the left side is the cells from the origin up to
\* the head, one per move right, and so empty only if the head did not move
\* right either; with no move right the right side is the cells of the
\* input after its first and one cell per move left.
C14_ContextWithoutMoves ==
  HasTape =>
    /\ NeverMoved(LEFT) =>
         GetLeftSide(tape) = SubSeq(FromOrigin(tape), 1, Count(RIGHT))
    /\ NeverMoved(RIGHT) =>
         Len(GetRightSide(tape)) = Count(LEFT) + Len(input_string) - 1
    /\ (NeverMoved(LEFT) /\ NeverMoved(RIGHT)) =>
         /\ GetLeftSide(tape) = <<>>
         /\ GetRightSide(tape) = Tail(input_string)

\* The head moved right and never left: the left side is not empty.
C14_Witness ==
  /\ HasTape
  /\ NeverMoved(LEFT)
  /\ Count(RIGHT) > 0
  /\ GetLeftSide(tape) # <<>>

\* C15: a finished run has printed as many descriptions as it has applied
\* transitions.
C15_TraceLengthIsApplied == pc \in Terminal => Len(out) = applied

\* C17: two runs rejected for a missing rule in the same state on the same
\* symbol, with different registers, have different rejection reasons.
C17_ReasonNamesRegister ==
  (/\ pc = "Rejected"
   /\ prev.valid
   /\ prev.pc = "Rejected"
   /\ rejection_reason[1] = "NoTransition"
   /\ prev.rejection_reason[1] = "NoTransition"
   /\ prev.current_state = current_state
   /\ GetCurrent(prev.tape) = GetCurrent(tape)
   /\ prev.cache # cache) =>
    prev.rejection_reason # rejection_reason

\* The string of n ones.
Ones(n) == [i \in 1..n |-> "1"]

\* C18: a finished run of the unary-increment machine on n >= 1 ones is
\* Accepted in qf after n + 1 transitions; the tape is n + 1 ones and one
\* blank cell, with the head on the blank cell.
C18_UnaryIncrement ==
  \A n \in 1..MaxLen :
    (/\ Configs[cfg] = UnaryConfig
     /\ input_string = Ones(n)
     /\ pc \in Terminal) =>
      /\ pc = "Accepted"
      /\ current_state = "qf"
      /\ applied = n + 1
      /\ FromOrigin(tape) = Ones(n + 1) \o << "_" >>
      /\ HeadPositions(tape) = {n + 1}
      /\ GetCurrent(tape) = "_"

\* C19: a run whose transition number MAX_STEPS enters an accepting state
\* ends Accepted in its next iteration, which counts no step, sets no
\* rejection reason and prints no description.
C19_AcceptAtBoundary ==
  /\ [][(/\ pc = "Running"
         /\ applied = MAX_STEPS
         /\ current_state \in defn.accepting_states) =>
          /\ pc' = "Accepted"
          /\ steps_count' = MAX_STEPS
          /\ rejection_reason' = rejection_reason
          /\ out' = out]_vars
  /\ []((pc \in Terminal /\ applied = MAX_STEPS
           /\ current_state \in defn.accepting_states) => pc = "Accepted")

\* A run Accepted after MAX_STEPS transitions.
C19_Witness ==
  /\ pc = "Accepted"
  /\ applied = MAX_STEPS
  /\ steps_count = MAX_STEPS

\* C20: the iteration that rejects leaves the state, the register, the
\* tape and the machine definition as they were, counts one step and sets
\* the rejection reason; every Rejected run has a rejection reason.
C20_RejectionFrame ==
  /\ [][(pc = "Running" /\ pc' = "Rejected") =>
          /\ UNCHANGED << current_state, cache, tape, defn >>
          /\ steps_count' = steps_count + 1
          /\ \/ rejection_reason' = << "MaxSteps" >>
             \/ rejection_reason' =
                  << "NoTransition", current_state, GetCurrent(tape) >>]_vars
  /\ [](pc = "Rejected" => rejection_reason # NoReason)

\* A run rejected for a missing rule after it had written and moved.
C20_Witness ==
  /\ pc = "Rejected"
  /\ applied > 0
  /\ rejection_reason = << "NoTransition", current_state, GetCurrent(tape) >>
  /\ HeadPositions(tape) # {0}

\* Run from its while to its end on the attributes of r.
RECURSIVE Iterate(_, _)
Iterate(d, r) ==
  IF r.pc = "Running" THEN Iterate(d, Iteration(d, r.object)) ELSE r

\* Run on a new engine with nothing else running: how it ends, and the
\* attributes of the engine then.
RunAlone(d, string) ==
  IF TapeInitRaises(string)
  THEN [pc |-> "Raised", object |-> NewObject(d)]
  ELSE Iterate(d, [pc |-> "Running",
                   object |-> RunStart(d, NewObject(d), string)])

\* The iterations of the single driver are those of Iteration.
IterationAgrees ==
  [][pc = "Running" =>
       LET r == Iteration(defn, [tape |-> tape, cache |-> cache,
                                 current_state |-> current_state,
                                 rejection_reason |-> rejection_reason,
                                 steps_count |-> steps_count])
       IN /\ pc' = r.pc
          /\ tape' = r.object.tape
          /\ cache' = r.object.cache
          /\ current_state' = r.object.current_state
          /\ rejection_reason' = r.object.rejection_reason
          /\ steps_count' = r.object.steps_count]_vars

====
